---------------------------- MODULE Spec2Model ----------------------------
(***************************************************************************)
(* A model of sfconversions: the codec between sf host objects (tagged     *)
(* R vectors, matrices and lists) and geo_types geometries wrapped in      *)
(* Geom, with the collection decoder/encoder and the collection            *)
(* classifiers.                                                            *)
(*                                                                         *)
(* Every function of the crate is an operator computed the way the code    *)
(* computes it; the specifications below draw an input in Init and apply   *)
(* the functions one call per step.  A panic (unwrap of None, index out of *)
(* range, panic!) is the result Panic: it aborts the whole call.           *)
(***************************************************************************)
EXTENDS Integers, Sequences, FiniteSets, TLC

VARIABLES
    pc,     \* which call has been made last
    x,      \* the input of the run, never changed
    mid,    \* the result of the first call
    out     \* the result of the second call

vars == <<pc, x, mid, out>>

---------------------------------------------------------------------------
(* Bounds of the model. *)

\* rows of one enumerated matrix / coordinates of one enumerated coordinate
\* sequence (longer rings are the fixed ones of WellFormedLongRings and
\* GeomLongRings)
MaxRows == 2
\* matrices in one payload, and components of one list
MaxRings == 2
\* elements of one collection
MaxLen == 3

---------------------------------------------------------------------------
(* Values. *)

\* f64 coordinates are drawn from two pairs that differ in x, in y and
\* between x and y.
Coords == {[x |-> 0, y |-> 0], [x |-> 1, y |-> 2]}

SeqsUpTo(S, n) == UNION {[1..k -> S] : k \in 0..n}

CoordSeqs == SeqsUpTo(Coords, MaxRows)

\* Result<T, E> and a panic that unwinds out of the call.
Ok(v) == [tag |-> "Ok", val |-> <<v>>]
Err == [tag |-> "Err", val |-> <<>>]
Panic == [tag |-> "Panic", val |-> <<>>]

\* Option<T>
None == <<>>
Some(v) == <<v>>

AllOk(rs) == \A i \in DOMAIN rs : rs[i].tag = "Ok"
Unwrapped(rs) == [i \in DOMAIN rs |-> rs[i].val[1]]

---------------------------------------------------------------------------
(* Host objects (extendr Robj): an R value with its class attribute.       *)
(* A matrix is a double vector with a dim attribute, stored column-major.  *)

RNull ==
    [class |-> <<>>, dbl |-> <<>>, dim |-> <<>>, elems |-> <<>>,
     kind |-> "NULL", ptr |-> <<>>]

RDoubles(v) ==
    [class |-> <<>>, dbl |-> v, dim |-> <<>>, elems |-> <<>>,
     kind |-> "double", ptr |-> <<>>]

RList(es) ==
    [class |-> <<>>, dbl |-> <<>>, dim |-> <<>>, elems |-> es,
     kind |-> "list", ptr |-> <<>>]

RExternalPtr(g) ==
    [class |-> <<>>, dbl |-> <<>>, dim |-> <<>>, elems |-> <<>>,
     kind |-> "externalptr", ptr |-> <<g>>]

\* RMatrix::new_matrix(nrow, ncol, f): cell k of the column-major vector is
\* f[row, col], the closure being a function of the zero-based row and
\* column.
new_matrix(nrow, ncol, f) ==
    [class |-> <<>>,
     dbl |-> [k \in 1..(nrow * ncol) |-> f[(k - 1) % nrow, (k - 1) \div nrow]],
     dim |-> <<nrow, ncol>>, elems |-> <<>>, kind |-> "double", ptr |-> <<>>]

set_class(r, cls) == [r EXCEPT !.class = cls]

\* RMatrix::from_robj / as_matrix / try_into succeed on a double vector
\* with a two-dimensional dim attribute.
is_matrix(r) == r.kind = "double" /\ Len(r.dim) = 2
nrows(m) == m.dim[1]
ncols(m) == m.dim[2]
\* (a variant that indexes the vector row-major)
At_rowmajor(m, i, j) == m.dbl[i * ncols(m) + j + 1]

\* x[[i, j]], zero-based
At(m, i, j) == m.dbl[i + j * nrows(m) + 1]

---------------------------------------------------------------------------
(* geo_types geometries and the Geom wrapper. *)

\* The variants of geo_types::Geometry, each with its own payload.
GPoint(c) == [kind |-> "Point", point |-> c]
GMultiPoint(ps) == [kind |-> "MultiPoint", points |-> ps]
GLineString(cs) == [kind |-> "LineString", coords |-> cs]
GMultiLineString(ls) == [kind |-> "MultiLineString", lines |-> ls]
GPolygon(p) == [kind |-> "Polygon", polygon |-> p]
GMultiPolygon(ps) == [kind |-> "MultiPolygon", polygons |-> ps]
GLine(a, b) == [kind |-> "Line", line |-> [start |-> a, end |-> b]]
GRect(a, b) == [kind |-> "Rect", rect |-> [min |-> a, max |-> b]]

Geom(g) == [geom |-> g]

coord(cx, cy) == [x |-> cx, y |-> cy]

\* LineString::is_closed: first() == last(); an empty one is closed.
is_closed(ls) == ls = <<>> \/ ls[1] = ls[Len(ls)]

\* LineString::close
close(ls) == IF is_closed(ls) THEN ls ELSE Append(ls, ls[1])

\* Polygon::new closes the exterior and every interior ring.
PolygonNew(exterior, interiors) ==
    [exterior |-> close(exterior),
     interiors |-> [i \in DOMAIN interiors |-> close(interiors[i])]]

Supported ==
    {"Point", "MultiPoint", "LineString", "MultiLineString", "Polygon",
     "MultiPolygon"}

SupportedTags ==
    {"POINT", "MULTIPOINT", "LINESTRING", "MULTILINESTRING", "POLYGON",
     "MULTIPOLYGON"}

---------------------------------------------------------------------------
(* fromsf.rs: the decoder. *)

matrix_to_coords(m) ==
    IF ncols(m) # 2 THEN Panic
    ELSE Ok([i \in 1..nrows(m) |-> coord(At(m, i - 1, 0), At(m, i - 1, 1))])

\* (a variant that reads the first two columns of a wider matrix)
matrix_to_points_truncating(m) ==
    IF ncols(m) < 2 THEN Panic
    ELSE Ok([i \in 1..nrows(m) |-> coord(At(m, i - 1, 0), At(m, i - 1, 1))])

matrix_to_points(m) ==
    IF ncols(m) # 2 THEN Panic
    ELSE Ok([i \in 1..nrows(m) |-> coord(At(m, i - 1, 0), At(m, i - 1, 1))])

\* RMatrix::try_from(x).unwrap() followed by matrix_to_coords
robj_to_coords(r) == IF is_matrix(r) THEN matrix_to_coords(r) ELSE Panic

\* (a variant whose interior rings start at element 0 instead of 1)
polygon_inner_from0(l) ==
    LET n == Len(l.elems)
        rings == [i \in 1..n |-> robj_to_coords(l.elems[i])]
    IN  IF l.kind # "list" \/ n = 0 \/ ~AllOk(rings) THEN Panic
        ELSE Ok(PolygonNew(rings[1].val[1],
                           [i \in 1..(n - 1) |-> rings[i].val[1]]))

\* The rings of a polygon payload: x[0] must exist, every element must be
\* a matrix of two columns.
polygon_inner(l) ==
    LET n == Len(l.elems)
        rings == [i \in 1..n |-> robj_to_coords(l.elems[i])]
    IN  IF l.kind # "list" \/ n = 0 \/ ~AllOk(rings) THEN Panic
        ELSE Ok(PolygonNew(rings[1].val[1],
                           [i \in 1..(n - 1) |-> rings[i + 1].val[1]]))

decode_point(r) ==
    IF r.kind = "double" /\ Len(r.dbl) >= 2
    THEN Ok(Geom(GPoint(coord(r.dbl[1], r.dbl[2]))))
    ELSE Panic

decode_multipoint(r) ==
    IF ~is_matrix(r) THEN Panic
    ELSE LET pts == matrix_to_points(r)
         IN  IF pts.tag # "Ok" THEN Panic
             ELSE Ok(Geom(GMultiPoint(pts.val[1])))

decode_linestring(r) ==
    IF ~is_matrix(r) THEN Panic
    ELSE LET cs == matrix_to_coords(r)
         IN  IF cs.tag # "Ok" THEN Panic
             ELSE Ok(Geom(GLineString(cs.val[1])))

decode_multilinestring(r) ==
    LET lns == [i \in DOMAIN r.elems |-> robj_to_coords(r.elems[i])]
    IN  IF r.kind # "list" \/ ~AllOk(lns) THEN Panic
        ELSE Ok(Geom(GMultiLineString(Unwrapped(lns))))

decode_polygon(r) ==
    LET p == polygon_inner(r)
    IN  IF p.tag # "Ok" THEN Panic
        ELSE Ok(Geom(GPolygon(p.val[1])))

decode_multipolygon(r) ==
    LET ps == [i \in DOMAIN r.elems |-> polygon_inner(r.elems[i])]
    IN  IF r.kind # "list" \/ ~AllOk(ps) THEN Panic
        ELSE Ok(Geom(GMultiPolygon(Unwrapped(ps))))

\* (a variant that also accepts the lower-case spelling of POINT)
sfg_to_geom_anycase(r) ==
    IF Len(r.class) < 2 THEN Panic
    ELSE LET cls == r.class[2]
         IN  CASE cls \in {"POINT", "point"} -> decode_point(r)
               [] cls = "MULTIPOINT" -> decode_multipoint(r)
               [] cls = "LINESTRING" -> decode_linestring(r)
               [] cls = "MULTILINESTRING" -> decode_multilinestring(r)
               [] cls = "POLYGON" -> decode_polygon(r)
               [] cls = "MULTIPOLYGON" -> decode_multipolygon(r)
               [] OTHER -> Err

\* x.class().unwrap() panics without a class attribute, cls2[1] panics on
\* a single tag; the match is on the second tag.
sfg_to_geom(r) ==
    IF Len(r.class) < 2 THEN Panic
    ELSE LET cls == r.class[2]
         IN  CASE cls = "POINT" -> decode_point(r)
               [] cls = "MULTIPOINT" -> decode_multipoint(r)
               [] cls = "LINESTRING" -> decode_linestring(r)
               [] cls = "MULTILINESTRING" -> decode_multilinestring(r)
               [] cls = "POLYGON" -> decode_polygon(r)
               [] cls = "MULTIPOLYGON" -> decode_multipolygon(r)
               [] OTHER -> Err

---------------------------------------------------------------------------
(* lib.rs: the decoder that returns a Geom and no Result. Its arms and its *)
(* own matrix_to_coords, matrix_to_points and polygon_inner are the text   *)
(* of fromsf.rs; a returned Geom is the Geom itself, an abort is Panic.    *)

\* Geom::from(Point::new(0.0, 0.0))
ZeroPoint == Geom(GPoint(coord(0, 0)))

\* what a function returning Geom gives where the same steps in a function
\* returning Result give r
Returned(r) == IF r.tag = "Ok" THEN r.val[1] ELSE Panic

\* (a variant that falls back to the point whenever nothing is decoded)
sfg_to_geometry_lenient(r) ==
    LET g == sfg_to_geom(r)
    IN  IF g.tag = "Ok" THEN g.val[1] ELSE ZeroPoint

sfg_to_geometry(r) ==
    IF Len(r.class) < 2 THEN Panic
    ELSE LET cls == r.class[2]
         IN  CASE cls = "POINT" -> Returned(decode_point(r))
               [] cls = "MULTIPOINT" -> Returned(decode_multipoint(r))
               [] cls = "LINESTRING" -> Returned(decode_linestring(r))
               [] cls = "MULTILINESTRING" ->
                      Returned(decode_multilinestring(r))
               [] cls = "POLYGON" -> Returned(decode_polygon(r))
               [] cls = "MULTIPOLYGON" -> Returned(decode_multipolygon(r))
               [] OTHER -> ZeroPoint

---------------------------------------------------------------------------
(* tosf.rs: the encoder. *)

from_coord(c) == <<c.x, c.y>>

from_point(p) ==
    set_class(RDoubles(from_coord(p)), <<"XY", "POINT", "sfg">>)

from_multipoint(mp) ==
    LET xs == [i \in DOMAIN mp |-> from_coord(mp[i])]
    IN  set_class(new_matrix(Len(xs), 2,
                             [r \in 0..(Len(xs) - 1), c \in 0..1 |->
                                 xs[r + 1][c + 1]]),
                  <<"XY", "MULTIPOINT", "sfg">>)

from_linestring(ls) ==
    LET xs == [i \in DOMAIN ls |-> from_coord(ls[i])]
    IN  set_class(new_matrix(Len(xs), 2,
                             [r \in 0..(Len(xs) - 1), c \in 0..1 |->
                                 xs[r + 1][c + 1]]),
                  <<"XY", "LINESTRING", "sfg">>)

from_multilinestring(mls) ==
    set_class(RList([i \in DOMAIN mls |-> from_linestring(mls[i])]),
              <<"XY", "MULTILINESTRING", "sfg">>)

\* (a variant that writes the interior rings before the exterior ring)
from_polygon_interiors_first(p) ==
    LET res == p.interiors \o <<p.exterior>>
    IN  set_class(RList([i \in DOMAIN res |-> from_linestring(res[i])]),
                  <<"XY", "POLYGON", "sfg">>)

from_polygon(p) ==
    LET res == <<p.exterior>> \o p.interiors
    IN  set_class(RList([i \in DOMAIN res |-> from_linestring(res[i])]),
                  <<"XY", "POLYGON", "sfg">>)

from_multipolygon(mp) ==
    set_class(RList([i \in DOMAIN mp |-> from_polygon(mp[i])]),
              <<"XY", "MULTIPOLYGON", "sfg">>)

\* (a variant that gives an unmatched variant an empty list, not NULL)
to_sfg_marker(g) ==
    LET v == g.geom
        k == v.kind
    IN  CASE k = "Point" -> from_point(v.point)
          [] k = "MultiPoint" -> from_multipoint(v.points)
          [] k = "LineString" -> from_linestring(v.coords)
          [] k = "MultiLineString" -> from_multilinestring(v.lines)
          [] k = "Polygon" -> from_polygon(v.polygon)
          [] k = "MultiPolygon" -> from_multipolygon(v.polygons)
          [] OTHER -> RList(<<>>)

to_sfg(g) ==
    LET v == g.geom
        k == v.kind
    IN  CASE k = "Point" -> from_point(v.point)
          [] k = "MultiPoint" -> from_multipoint(v.points)
          [] k = "LineString" -> from_linestring(v.coords)
          [] k = "MultiLineString" -> from_multilinestring(v.lines)
          [] k = "Polygon" -> from_polygon(v.polygon)
          [] k = "MultiPolygon" -> from_multipolygon(v.polygons)
          [] OTHER -> RNull

RECURSIVE collect_sfg(_)
\* the map over the iterator, collected element by element
collect_sfg(v) ==
    IF Len(v) = 0 THEN <<>>
    ELSE <<IF Head(v) = None THEN RNull ELSE to_sfg(Head(v)[1])>>
            \o collect_sfg(Tail(v))

RECURSIVE collect_sfg_some(_)
\* (a variant that skips the None elements, as filter_map would)
collect_sfg_some(v) ==
    IF Len(v) = 0 THEN <<>>
    ELSE (IF Head(v) = None THEN <<>> ELSE <<to_sfg(Head(v)[1])>>)
            \o collect_sfg_some(Tail(v))

geoms_to_sfc_some(v) == RList(collect_sfg_some(v))

geoms_to_sfc(v) == RList(collect_sfg(v))

---------------------------------------------------------------------------
(* fromsf.rs: the collection decoders.  A panic in the closure unwinds out *)
(* of the map and of the call; an Err becomes None.                        *)

sfc_to_geoms(l) ==
    LET rs == [i \in DOMAIN l.elems |-> sfg_to_geom(l.elems[i])]
    IN  IF \E i \in DOMAIN rs : rs[i].tag = "Panic" THEN Panic
        ELSE Ok([i \in DOMAIN rs |->
                    IF rs[i].tag = "Ok" THEN Some(rs[i].val[1]) ELSE None])

sfc_to_geometry(l) ==
    LET rs == [i \in DOMAIN l.elems |-> sfg_to_geom(l.elems[i])]
    IN  IF \E i \in DOMAIN rs : rs[i].tag = "Panic" THEN Panic
        ELSE Ok([i \in DOMAIN rs |->
                    IF rs[i].tag = "Ok" THEN Some(rs[i].val[1].geom) ELSE None])

---------------------------------------------------------------------------
(* Rust strings whose characters the code looks at (to_uppercase,          *)
(* starts_with, split_off, is_empty) are sequences of characters.          *)

\* The characters of the string literals of the code.
Str(s) ==
    CASE s = "" -> <<>>
      [] s = "Point" -> <<"P", "o", "i", "n", "t">>
      [] s = "MultiPoint" -> <<"M", "u", "l", "t", "i", "P", "o", "i", "n", "t">>
      [] s = "LineString" -> <<"L", "i", "n", "e", "S", "t", "r", "i", "n", "g">>
      [] s = "MultiLineString" -> <<"M", "u", "l", "t", "i", "L", "i", "n", "e", "S", "t", "r", "i", "n", "g">>
      [] s = "Polygon" -> <<"P", "o", "l", "y", "g", "o", "n">>
      [] s = "MultiPolygon" -> <<"M", "u", "l", "t", "i", "P", "o", "l", "y", "g", "o", "n">>
      [] s = "Line" -> <<"L", "i", "n", "e">>
      [] s = "Rect" -> <<"R", "e", "c", "t">>
      [] s = "point" -> <<"p", "o", "i", "n", "t">>
      [] s = "multipoint" -> <<"m", "u", "l", "t", "i", "p", "o", "i", "n", "t">>
      [] s = "linestring" -> <<"l", "i", "n", "e", "s", "t", "r", "i", "n", "g">>
      [] s = "multilinestring" -> <<"m", "u", "l", "t", "i", "l", "i", "n", "e", "s", "t", "r", "i", "n", "g">>
      [] s = "polygon" -> <<"p", "o", "l", "y", "g", "o", "n">>
      [] s = "multipolygon" -> <<"m", "u", "l", "t", "i", "p", "o", "l", "y", "g", "o", "n">>
      [] s = "POINT" -> <<"P", "O", "I", "N", "T">>
      [] s = "MULTIPOINT" -> <<"M", "U", "L", "T", "I", "P", "O", "I", "N", "T">>
      [] s = "LINESTRING" -> <<"L", "I", "N", "E", "S", "T", "R", "I", "N", "G">>
      [] s = "MULTILINESTRING" -> <<"M", "U", "L", "T", "I", "L", "I", "N", "E", "S", "T", "R", "I", "N", "G">>
      [] s = "POLYGON" -> <<"P", "O", "L", "Y", "G", "O", "N">>
      [] s = "MULTIPOLYGON" -> <<"M", "U", "L", "T", "I", "P", "O", "L", "Y", "G", "O", "N">>
      [] s = "GEOMETRYCOLLECTION" -> <<"G", "E", "O", "M", "E", "T", "R", "Y", "C", "O", "L", "L", "E", "C", "T", "I", "O", "N">>
      [] s = "geometrycollection" -> <<"g", "e", "o", "m", "e", "t", "r", "y", "c", "o", "l", "l", "e", "c", "t", "i", "o", "n">>
      [] s = "rs_" -> <<"r", "s", "_">>
      [] s = "rsgeo" -> <<"r", "s", "g", "e", "o">>
      [] s = "vctrs_vctr" -> <<"v", "c", "t", "r", "s", "_", "v", "c", "t", "r">>
      [] s = "list" -> <<"l", "i", "s", "t">>

LowerCase == <<"a", "b", "c", "d", "e", "f", "g", "h", "i", "j", "k", "l", "m">> \o
    <<"n", "o", "p", "q", "r", "s", "t", "u", "v", "w", "x", "y", "z">>
UpperCase == <<"A", "B", "C", "D", "E", "F", "G", "H", "I", "J", "K", "L", "M">> \o
    <<"N", "O", "P", "Q", "R", "S", "T", "U", "V", "W", "X", "Y", "Z">>

\* char::to_uppercase on ASCII
upper_char(c) ==
    IF \E i \in DOMAIN LowerCase : LowerCase[i] = c
    THEN UpperCase[CHOOSE i \in DOMAIN LowerCase : LowerCase[i] = c]
    ELSE c

\* str::to_uppercase
to_uppercase(s) == [i \in DOMAIN s |-> upper_char(s[i])]

\* char::to_lowercase on ASCII
lower_char(c) ==
    IF \E i \in DOMAIN UpperCase : UpperCase[i] = c
    THEN LowerCase[CHOOSE i \in DOMAIN UpperCase : UpperCase[i] = c]
    ELSE c

\* str::to_lowercase
to_lowercase(s) == [i \in DOMAIN s |-> lower_char(s[i])]

\* str::starts_with
starts_with(s, prefix) ==
    Len(s) >= Len(prefix) /\ SubSeq(s, 1, Len(prefix)) = prefix

\* String::split_off(at): the characters from position at (0-based) on; it
\* panics when at is beyond the end.
split_off(s, at) == IF at > Len(s) THEN Panic ELSE Ok(SubSeq(s, at + 1, Len(s)))

---------------------------------------------------------------------------
(* tosf.rs: the class of a collection of optional Geom. *)

\* format!("{:?}", geom.geom) up to the first '(': the derived Debug of
\* the enum starts with the name of the variant.
debug_variant(g) == Str(g.geom.kind)

\* (a variant in which a None element empties the result)
sfc_class_step_reset(st, v) ==
    LET e == v[st.i + 1]
    IN  IF e = None THEN [st EXCEPT !.i = st.i + 1, !.result = Str("")]
        ELSE LET cls == debug_variant(e[1])
             IN  IF Len(st.result) = 0
                 THEN [st EXCEPT !.i = st.i + 1, !.result = cls]
                 ELSE IF st.result # cls
                 THEN [st EXCEPT !.result = Str("GEOMETRYCOLLECTION"),
                                 !.done = TRUE]
                 ELSE [st EXCEPT !.i = st.i + 1]

\* (a variant that stops at the first mismatch without storing the
\* sentinel)
sfc_class_step_keepfirst(st, v) ==
    LET e == v[st.i + 1]
    IN  IF e = None THEN [st EXCEPT !.i = st.i + 1]
        ELSE LET cls == debug_variant(e[1])
             IN  IF Len(st.result) = 0
                 THEN [st EXCEPT !.i = st.i + 1, !.result = cls]
                 ELSE IF st.result # cls
                 THEN [st EXCEPT !.done = TRUE]
                 ELSE [st EXCEPT !.i = st.i + 1]

\* One turn of the for loop over x: position i is looked at.
sfc_class_step(st, v) ==
    LET e == v[st.i + 1]
    IN  IF e = None THEN [st EXCEPT !.i = st.i + 1]
        ELSE LET cls == debug_variant(e[1])
             IN  IF Len(st.result) = 0
                 THEN [st EXCEPT !.i = st.i + 1, !.result = cls]
                 ELSE IF st.result # cls
                 THEN [st EXCEPT !.result = Str("GEOMETRYCOLLECTION"),
                                 !.done = TRUE]
                 ELSE [st EXCEPT !.i = st.i + 1]

sfc_class_start == [i |-> 0, result |-> Str(""), done |-> FALSE]

sfc_class_over(st, v) == st.done \/ st.i = Len(v)

RECURSIVE sfc_class_loop(_, _)
sfc_class_loop(st, v) ==
    IF sfc_class_over(st, v) THEN st.result
    ELSE sfc_class_loop(sfc_class_step(st, v), v)

determine_sfc_class(v) == sfc_class_loop(sfc_class_start, v)

---------------------------------------------------------------------------
(* geom.rs and vctrs.rs: pointers to Geom and the class of a list of them. *)

\* (a variant that gives every pointer the empty class name)
to_pntr_unnamed(g) == set_class(RExternalPtr(g), <<Str("")>>)

to_pntr(g) ==
    LET k == g.geom.kind
        cls == CASE k = "Point" -> Str("point")
                 [] k = "MultiPoint" -> Str("multipoint")
                 [] k = "LineString" -> Str("linestring")
                 [] k = "MultiLineString" -> Str("multilinestring")
                 [] k = "Polygon" -> Str("polygon")
                 [] k = "MultiPolygon" -> Str("multipolygon")
                 [] OTHER -> Str("")
    IN  set_class(RExternalPtr(g), <<cls>>)

\* (a variant that keeps the case of the class name)
geom_class_keepcase(cls) ==
    <<Str("rs_") \o cls, Str("rsgeo"), Str("vctrs_vctr"), Str("list")>>

geom_class(cls) ==
    <<Str("rs_") \o to_uppercase(cls), Str("rsgeo"), Str("vctrs_vctr"),
      Str("list")>>

\* x[0] needs a first element and class().unwrap() a class attribute; all()
\* stops at the first element whose first tag differs, and unwraps the
\* class of every element it gets to.
determine_geoms_class(l) ==
    IF Len(l.elems) = 0 \/ Len(l.elems[1].class) = 0 THEN Panic
    ELSE LET class == l.elems[1].class[1]
             differs(i) ==
                Len(l.elems[i].class) = 0 \/ l.elems[i].class[1] # class
             stops == {i \in DOMAIN l.elems : differs(i)}
             first == CHOOSE i \in stops : \A j \in stops : i <= j
         IN  IF stops = {} THEN Ok(geom_class(class))
             ELSE IF Len(l.elems[first].class) = 0 THEN Panic
             ELSE Ok(geom_class(Str("geometrycollection")))

\* x.set_class(geom_class(class)) on a list
as_rsgeo_vctr(l, class) == set_class(l, geom_class(class))

\* Robj::inherits
inherits(r, name) == \E i \in DOMAIN r.class : r.class[i] = name

\* Rbool: NA for NULL, otherwise whether the first class tag starts with
\* "rs_"; class().unwrap().next().unwrap() needs a first tag.
is_rsgeo(r) ==
    IF r.kind = "NULL" THEN Ok("NA")
    ELSE IF Len(r.class) = 0 THEN Panic
    ELSE IF starts_with(r.class[1], Str("rs_")) THEN Ok("TRUE")
    ELSE Ok("FALSE")

\* returns () or panics
verify_rsgeo(r) ==
    IF Len(r.class) = 0 THEN Panic
    ELSE IF ~starts_with(r.class[1], Str("rs_")) THEN Panic
    ELSE Ok(<<>>)

\* (a variant that returns the type as the tag spells it)
rsgeo_type_keepcase(r) ==
    IF ~inherits(r, Str("rsgeo")) THEN Panic
    ELSE IF ~starts_with(r.class[1], Str("rs_")) THEN Panic
    ELSE split_off(r.class[1], 3)

rsgeo_type(r) ==
    IF ~inherits(r, Str("rsgeo")) THEN Panic
    ELSE IF ~starts_with(r.class[1], Str("rs_")) THEN Panic
    ELSE LET rest == split_off(r.class[1], 3)
         IN  IF rest.tag # "Ok" THEN Panic
             ELSE Ok(to_lowercase(rest.val[1]))

---------------------------------------------------------------------------
(* The inputs the specifications draw from. *)

\* An N x 2 (or N x ncol) R matrix holding the given rows.
MatrixOfRows(rows, ncol) ==
    new_matrix(Len(rows), ncol,
               [r \in 0..(Len(rows) - 1), c \in 0..(ncol - 1) |->
                   rows[r + 1][c + 1]])

CoordMatrix(cs) == MatrixOfRows([i \in DOMAIN cs |-> <<cs[i].x, cs[i].y>>], 2)

Matrices == {CoordMatrix(cs) : cs \in CoordSeqs}

MatrixSeqs == SeqsUpTo(Matrices, MaxRings)

\* A sequence cut into consecutive non-empty chunks after the positions of
\* c that lie inside it.
Split(s, c) ==
    LET ends == {k \in 1..Len(s) : k \in c \/ k = Len(s)}
        endOf(j) == CHOOSE k \in ends : Cardinality({e \in ends : e <= k}) = j
        startOf(j) == IF j = 1 THEN 1 ELSE endOf(j - 1) + 1
    IN  [j \in 1..Cardinality(ends) |-> SubSeq(s, startOf(j), endOf(j))]

\* where a list of at most MaxRings matrices can be cut
Cuts == SUBSET (1..(MaxRings - 1))

Sfg(payload, tag) == set_class(payload, <<"XY", tag, "sfg">>)

WellFormedPoints == {Sfg(RDoubles(<<c.x, c.y>>), "POINT") : c \in Coords}
WellFormedMultiPoints == {Sfg(m, "MULTIPOINT") : m \in Matrices}
WellFormedLineStrings == {Sfg(m, "LINESTRING") : m \in Matrices}
WellFormedMultiLineStrings ==
    {Sfg(RList(ms), "MULTILINESTRING") : ms \in MatrixSeqs}
WellFormedPolygons ==
    {Sfg(RList(ms), "POLYGON") : ms \in MatrixSeqs \ {<<>>}}
\* a MULTIPOLYGON of at most MaxRings matrices in all
WellFormedMultiPolygons ==
    {Sfg(RList([i \in DOMAIN Split(ms, c) |-> RList(Split(ms, c)[i])]),
         "MULTIPOLYGON") : ms \in MatrixSeqs, c \in Cuts}

\* Rings longer than MaxRows rows: a closed square with a closed hole, an
\* unclosed hole, and a closed triangle.
SquareRing == <<coord(0, 0), coord(4, 0), coord(4, 4), coord(0, 0)>>
HoleRing == <<coord(1, 1), coord(2, 1), coord(2, 2), coord(1, 1)>>
OpenRing == <<coord(1, 1), coord(2, 1), coord(2, 2)>>
TriangleRing == <<coord(0, 0), coord(1, 2), coord(0, 0)>>

WellFormedLongRings ==
    {Sfg(CoordMatrix(OpenRing), "MULTIPOINT"),
     Sfg(CoordMatrix(SquareRing), "LINESTRING"),
     Sfg(RList(<<CoordMatrix(SquareRing), CoordMatrix(OpenRing)>>),
         "MULTILINESTRING"),
     Sfg(RList(<<CoordMatrix(SquareRing), CoordMatrix(HoleRing)>>), "POLYGON"),
     Sfg(RList(<<CoordMatrix(SquareRing), CoordMatrix(OpenRing)>>), "POLYGON"),
     Sfg(RList(<<CoordMatrix(OpenRing), CoordMatrix(HoleRing)>>), "POLYGON"),
     Sfg(RList(<<RList(<<CoordMatrix(TriangleRing)>>),
                 RList(<<CoordMatrix(SquareRing), CoordMatrix(HoleRing)>>)>>),
         "MULTIPOLYGON"),
     Sfg(RList(<<RList(<<CoordMatrix(SquareRing), CoordMatrix(OpenRing)>>),
                 RList(<<CoordMatrix(TriangleRing)>>)>>),
         "MULTIPOLYGON")}

\* Objects that are not well-formed sf geometries: other tags, lower-case
\* tags, fewer than two tags, another dimensionality marker, and payloads
\* that do not match the tag.
OtherTags == {"GEOMETRYCOLLECTION", "point", "Polygon", "sfg", ""}
DimTags == {"XY", "XYZ", "POINT"}

PayloadSamples ==
    {RDoubles(<<1, 2>>), RDoubles(<<1>>),
     CoordMatrix(<<coord(0, 0), coord(1, 2)>>),
     MatrixOfRows(<<<<0, 1, 2>>, <<1, 2, 0>>>>, 3),
     MatrixOfRows(<<<<0>>, <<1>>>>, 1),
     MatrixOfRows(<<>>, 3),
     RList(<<>>),
     RList(<<CoordMatrix(<<coord(0, 0), coord(1, 2), coord(0, 0)>>)>>),
     RList(<<MatrixOfRows(<<<<0, 1, 2>>>>, 3)>>),
     RList(<<RList(<<CoordMatrix(<<coord(1, 2)>>)>>)>>),
     RList(<<RList(<<>>)>>)}

TaggedSamples ==
    {set_class(p, <<d, t, "sfg">>) :
        p \in PayloadSamples, d \in DimTags, t \in OtherTags \cup SupportedTags}

ShortTagged ==
    {RNull} \cup {set_class(p, <<"sfg">>) : p \in PayloadSamples}
            \cup {set_class(p, <<>>) : p \in PayloadSamples}

WellFormed ==
    WellFormedPoints \cup WellFormedMultiPoints \cup WellFormedLineStrings
        \cup WellFormedMultiLineStrings \cup WellFormedPolygons
        \cup WellFormedMultiPolygons \cup WellFormedLongRings

HostObjects == WellFormed \cup TaggedSamples \cup ShortTagged

---------------------------------------------------------------------------
(* Decoding one host object, then encoding what was decoded. *)

InitDecode ==
    /\ pc = "start"
    /\ x \in HostObjects
    /\ mid = None
    /\ out = None

SfgToGeom ==
    /\ pc = "start"
    /\ mid' = sfg_to_geom(x)
    /\ pc' = "decoded"
    /\ UNCHANGED <<x, out>>

ToSfgBack ==
    /\ pc = "decoded"
    /\ mid.tag = "Ok"
    /\ out' = to_sfg(mid.val[1])
    /\ pc' = "reencoded"
    /\ UNCHANGED <<x, mid>>

NextDecode == SfgToGeom \/ ToSfgBack

SpecDecode == InitDecode /\ [][NextDecode]_vars

---------------------------------------------------------------------------
(* Encoding one Geom, then decoding what was encoded. *)

RingSeqs == SeqsUpTo(CoordSeqs, MaxRings)

PolygonOf(rs) == PolygonNew(rs[1], Tail(rs))

GeomPoints == {Geom(GPoint(c)) : c \in Coords}
GeomMultiPoints == {Geom(GMultiPoint(cs)) : cs \in CoordSeqs}
GeomLineStrings == {Geom(GLineString(cs)) : cs \in CoordSeqs}
GeomMultiLineStrings == {Geom(GMultiLineString(rs)) : rs \in RingSeqs}
\* a Polygon is only ever built by Polygon::new
GeomPolygons ==
    {Geom(GPolygon(PolygonOf(rs))) : rs \in RingSeqs \ {<<>>}}
\* a MultiPolygon of at most MaxRings rings in all
GeomMultiPolygons ==
    {Geom(GMultiPolygon([i \in DOMAIN Split(rs, c) |->
                            PolygonOf(Split(rs, c)[i])])) :
        rs \in RingSeqs, c \in Cuts}
\* geometries with rings longer than MaxRows coordinates
GeomLongRings ==
    {Geom(GMultiPoint(OpenRing)),
     Geom(GLineString(SquareRing)),
     Geom(GMultiLineString(<<SquareRing, OpenRing>>)),
     Geom(GPolygon(PolygonOf(<<SquareRing, HoleRing>>))),
     Geom(GPolygon(PolygonOf(<<SquareRing, OpenRing>>))),
     Geom(GMultiPolygon(<<PolygonOf(<<TriangleRing>>), PolygonOf(<<<<>>>>)>>)),
     Geom(GMultiPolygon(<<PolygonOf(<<SquareRing, HoleRing>>),
                          PolygonOf(<<OpenRing>>)>>))}

\* variants of Geometry that sf has no object for (geom.rs: From<Line>,
\* From<Rect>)
GeomOthers ==
    {Geom(GLine(a, b)) : a, b \in Coords}
        \cup {Geom(GRect(coord(0, 0), c)) : c \in Coords}

Geoms ==
    GeomPoints \cup GeomMultiPoints \cup GeomLineStrings
        \cup GeomMultiLineStrings \cup GeomPolygons \cup GeomMultiPolygons
        \cup GeomLongRings \cup GeomOthers

InitEncode ==
    /\ pc = "start"
    /\ x \in Geoms
    /\ mid = None
    /\ out = None

ToSfg ==
    /\ pc = "start"
    /\ mid' = to_sfg(x)
    /\ pc' = "encoded"
    /\ UNCHANGED <<x, out>>

SfgToGeomBack ==
    /\ pc = "encoded"
    /\ out' = sfg_to_geom(mid)
    /\ pc' = "redecoded"
    /\ UNCHANGED <<x, mid>>

NextEncode == ToSfg \/ SfgToGeomBack

SpecEncode == InitEncode /\ [][NextEncode]_vars

---------------------------------------------------------------------------
(* What the claims speak of. *)

\* The rows of a matrix, read off its column-major vector.
Rows(m) == [i \in 1..m.dim[1] |-> coord(m.dbl[i], m.dbl[m.dim[1] + i])]

IsNx2(r) == r.kind = "double" /\ Len(r.dim) = 2 /\ r.dim[2] = 2

IsPolygonPayload(r) ==
    r.kind = "list" /\ Len(r.elems) >= 1
        /\ \A i \in DOMAIN r.elems : IsNx2(r.elems[i])

\* A well-formed tagged host object of one of the six variants.
IsWellFormed(r) ==
    /\ Len(r.class) >= 2
    /\ LET t == r.class[2]
       IN  CASE t = "POINT" ->
                    r.kind = "double" /\ Len(r.dbl) = 2 /\ r.dim = <<>>
             [] t \in {"MULTIPOINT", "LINESTRING"} -> IsNx2(r)
             [] t = "MULTILINESTRING" ->
                    r.kind = "list" /\ \A i \in DOMAIN r.elems : IsNx2(r.elems[i])
             [] t = "POLYGON" -> IsPolygonPayload(r)
             [] t = "MULTIPOLYGON" ->
                    r.kind = "list"
                        /\ \A i \in DOMAIN r.elems : IsPolygonPayload(r.elems[i])
             [] OTHER -> FALSE

RECURSIVE Strip(_)
\* An object without the class tags, at every level of nesting: its
\* nesting, its dimensions and its numbers.
Strip(r) ==
    [r EXCEPT !.class = <<>>,
              !.elems = [i \in DOMAIN r.elems |-> Strip(r.elems[i])]]

\* A ring matrix is closed when it has no rows or its first row equals its
\* last row.
RowsClosed(rows) == Len(rows) = 0 \/ rows[1] = rows[Len(rows)]

\* The rows of a ring matrix, with the first row repeated at the end when
\* the matrix is not closed.
ClosedRows(rows) == IF RowsClosed(rows) THEN rows ELSE rows \o <<rows[1]>>

ClosedMatrix(m) == CoordMatrix(ClosedRows(Rows(m)))

ClosedPayload(l) == RList([i \in DOMAIN l.elems |-> ClosedMatrix(l.elems[i])])

\* A well-formed object with every polygon ring closed.
WithClosedRings(r) ==
    CASE r.class[2] = "POLYGON" -> Strip(ClosedPayload(r))
      [] r.class[2] = "MULTIPOLYGON" ->
            RList([i \in DOMAIN r.elems |-> ClosedPayload(r.elems[i])])
      [] OTHER -> Strip(r)

PolygonPayloads(r) ==
    CASE r.class[2] = "POLYGON" -> <<r>>
      [] r.class[2] = "MULTIPOLYGON" -> r.elems
      [] OTHER -> <<>>

AllRingsClosed(r) ==
    \A i \in DOMAIN PolygonPayloads(r) :
        \A j \in DOMAIN PolygonPayloads(r)[i].elems :
            RowsClosed(Rows(PolygonPayloads(r)[i].elems[j]))

\* The polygons a decoded Geom holds.
DecodedPolygons(g) ==
    CASE g.geom.kind = "Polygon" -> <<g.geom.polygon>>
      [] g.geom.kind = "MultiPolygon" -> g.geom.polygons
      [] OTHER -> <<>>

---------------------------------------------------------------------------
(* C1 as stated: every well-formed host object of the six variants, its    *)
(* polygon rings closed or not, is decoded, and encoding what was decoded  *)
(* gives the object back: same variant tag, same nesting, same rows.       *)
C1_EncodeAfterDecode_AnyRing ==
    /\ (pc = "decoded" /\ IsWellFormed(x)) => mid.tag = "Ok"
    /\ (pc = "reencoded" /\ IsWellFormed(x)) =>
            /\ out.class[2] = x.class[2]
            /\ Strip(out) = Strip(x)

(* C1 amended: every well-formed host object is decoded, and encoding what *)
(* was decoded gives back the same variant tag and the object with every   *)
(* unclosed polygon ring closed by a copy of its first row; this is the    *)
(* object itself when every ring matrix is empty or has equal first and    *)
(* last rows, and for the four variants without rings.                     *)
C1_EncodeAfterDecode ==
    /\ (pc = "decoded" /\ IsWellFormed(x)) => mid.tag = "Ok"
    /\ (pc = "reencoded" /\ IsWellFormed(x)) =>
            /\ out.class[2] = x.class[2]
            /\ Strip(out) = WithClosedRings(x)
            /\ AllRingsClosed(x) => Strip(out) = Strip(x)

C1_Witness ==
    /\ pc = "reencoded"
    /\ IsWellFormed(x)
    /\ x.class[2] = "MULTIPOLYGON"
    /\ Len(x.elems) = 2
    /\ x.elems[1].elems[1].dim[1] = 3
    /\ Len(x.elems[2].elems) = 2
    /\ x.elems[1] # x.elems[2]
    /\ AllRingsClosed(x)
    /\ Strip(out) = Strip(x)

---------------------------------------------------------------------------
(* C2: for every Geom of the six variants, built directly (a Polygon by    *)
(* Polygon::new), with empty coordinate sequences and empty component      *)
(* lists among them, decoding its encoding is Ok and gives the same Geom:  *)
(* same variant, coordinates, rings and component order.                   *)
C2_DecodeAfterEncode ==
    (pc = "redecoded" /\ x.geom.kind \in Supported) => out = Ok(x)

C2_Witness ==
    /\ pc = "redecoded"
    /\ x.geom.kind = "MultiPolygon"
    /\ Len(x.geom.polygons) = 2
    /\ Len(x.geom.polygons[1].exterior) = 3
    /\ Len(x.geom.polygons[2].exterior) = 0
    /\ out = Ok(x)

---------------------------------------------------------------------------
\* Ring i (0 the exterior) of a decoded polygon.
RingOf(p, i) == IF i = 0 THEN p.exterior ELSE p.interiors[i]

\* The structure of the polygons decoded from a well-formed POLYGON or
\* MULTIPOLYGON object: one polygon per payload, one ring per matrix, the
\* exterior from matrix 0 and interior i from matrix i + 1, each ring
\* related to the rows of its matrix by Ring(rows, ring).
RingsDecoded(Ring(_, _)) ==
    (pc = "decoded" /\ IsWellFormed(x)
        /\ x.class[2] \in {"POLYGON", "MULTIPOLYGON"}) =>
        /\ mid.tag = "Ok"
        /\ LET ps == DecodedPolygons(mid.val[1])
               ls == PolygonPayloads(x)
           IN  /\ Len(ps) = Len(ls)
               /\ \A k \in DOMAIN ls :
                    /\ Len(ps[k].interiors) = Len(ls[k].elems) - 1
                    /\ \A i \in 0..(Len(ls[k].elems) - 1) :
                         Ring(Rows(ls[k].elems[i + 1]), RingOf(ps[k], i))

(* C3 as stated: the exterior ring is exactly the rows of matrix 0 and     *)
(* interior ring i exactly the rows of matrix i + 1, each ring with as     *)
(* many coordinates as its matrix has rows, closed or not.                 *)
C3_RingsExactly_AnyRing == RingsDecoded(LAMBDA rows, ring : ring = rows)

(* C3 amended: the exterior ring comes from matrix 0 and interior ring i   *)
(* from matrix i + 1, a one-matrix payload giving no interior ring; a ring *)
(* is exactly the rows of its matrix when the matrix is empty or its       *)
(* first and last rows are equal, and otherwise the rows followed by a     *)
(* copy of the first row, one coordinate more than the matrix has rows.    *)
C3_RingsExactly ==
    RingsDecoded(LAMBDA rows, ring :
        /\ RowsClosed(rows) => ring = rows
        /\ ~RowsClosed(rows) =>
              /\ Len(ring) = Len(rows) + 1
              /\ ring = rows \o <<rows[1]>>)

C3_Witness ==
    /\ pc = "decoded"
    /\ IsWellFormed(x)
    /\ x.class[2] = "POLYGON"
    /\ Len(x.elems) = 2
    /\ RowsClosed(Rows(x.elems[1])) /\ Len(Rows(x.elems[1])) = 4
    /\ ~RowsClosed(Rows(x.elems[2]))
    /\ mid.tag = "Ok"
    /\ Len(mid.val[1].geom.polygon.interiors) = 1
    /\ Len(mid.val[1].geom.polygon.interiors[1]) = Len(Rows(x.elems[2])) + 1

---------------------------------------------------------------------------
\* The object with its first class tag replaced.
WithFirstTag(r, d) == set_class(r, <<d>> \o Tail(r.class))

(* C4: decoding an object whose second class tag is not one of the six     *)
(* upper-case variant names is Err, whatever the payload and the first     *)
(* tag; and no object's decoding depends on its first tag.                 *)
C4_UnsupportedTagIsErr ==
    (pc = "decoded" /\ Len(x.class) >= 2) =>
        /\ x.class[2] \notin SupportedTags => mid = Err
        /\ \A d \in DimTags \cup OtherTags :
              sfg_to_geom(WithFirstTag(x, d)) = mid

C4_Witness ==
    /\ pc = "decoded"
    /\ x.class = <<"XYZ", "GEOMETRYCOLLECTION", "sfg">>
    /\ x.kind = "list"
    /\ Len(x.elems) = 1
    /\ mid = Err

---------------------------------------------------------------------------
(* Collections: decoding a list of host objects, encoding a sequence of    *)
(* optional Geom and decoding the list it gives.                           *)

SfcSamples ==
    {RNull,
     Sfg(RDoubles(<<1, 2>>), "POINT"),
     Sfg(CoordMatrix(<<coord(0, 0), coord(1, 2)>>), "LINESTRING"),
     Sfg(RList(<<CoordMatrix(<<coord(0, 0), coord(1, 2), coord(0, 0)>>)>>),
         "POLYGON"),
     Sfg(RList(<<>>), "GEOMETRYCOLLECTION"),
     set_class(RDoubles(<<1, 2>>), <<"POINT">>),
     Sfg(MatrixOfRows(<<<<0, 1, 2>>>>, 3), "LINESTRING"),
     Sfg(RList(<<>>), "POLYGON")}

GeomSamples ==
    {Geom(GPoint(coord(0, 0))), Geom(GPoint(coord(1, 2))),
     Geom(GMultiPoint(<<coord(1, 2)>>)),
     Geom(GLineString(<<coord(0, 0), coord(1, 2)>>)),
     Geom(GMultiLineString(<<>>)),
     Geom(GPolygon(PolygonNew(<<coord(0, 0), coord(1, 2)>>, <<>>))),
     Geom(GMultiPolygon(<<PolygonNew(<<>>, <<>>)>>)),
     Geom(GLine(coord(0, 0), coord(1, 2))),
     Geom(GRect(coord(0, 0), coord(1, 2)))}

OptGeoms == {None} \cup {Some(g) : g \in GeomSamples}

InitColl ==
    /\ mid = None
    /\ out = None
    /\ \/ pc = "start_sfc"
          /\ x \in {RList(es) : es \in SeqsUpTo(SfcSamples, MaxLen)}
       \/ pc = "start_geoms"
          /\ x \in SeqsUpTo(OptGeoms, MaxLen)

SfcToGeoms ==
    /\ pc = "start_sfc"
    /\ mid' = sfc_to_geoms(x)
    /\ pc' = "sfc_to_geoms"
    /\ UNCHANGED <<x, out>>

SfcToGeometry ==
    /\ pc = "start_sfc"
    /\ mid' = sfc_to_geometry(x)
    /\ pc' = "sfc_to_geometry"
    /\ UNCHANGED <<x, out>>

GeomsToSfc ==
    /\ pc = "start_geoms"
    /\ mid' = geoms_to_sfc(x)
    /\ pc' = "geoms_to_sfc"
    /\ UNCHANGED <<x, out>>

SfcToGeomsBack ==
    /\ pc = "geoms_to_sfc"
    /\ out' = sfc_to_geoms(mid)
    /\ pc' = "sfc_round_trip"
    /\ UNCHANGED <<x, mid>>

NextColl == SfcToGeoms \/ SfcToGeometry \/ GeomsToSfc \/ SfcToGeomsBack

SpecColl == InitColl /\ [][NextColl]_vars

---------------------------------------------------------------------------
(* C5 as stated: a null element (an object without class tags) of the      *)
(* input list gives None at its position, the other elements are decoded   *)
(* at their positions and the call completes.  Stated for the lists whose  *)
(* other elements all decode without a panic.                              *)
C5_NullDecodesToNone ==
    (/\ pc \in {"sfc_to_geoms", "sfc_to_geometry"}
     /\ \A i \in DOMAIN x.elems :
            x.elems[i] # RNull => sfg_to_geom(x.elems[i]).tag # "Panic") =>
        /\ mid.tag = "Ok"
        /\ Len(mid.val[1]) = Len(x.elems)
        /\ \A i \in DOMAIN x.elems :
              /\ x.elems[i] = RNull => mid.val[1][i] = None
              /\ sfg_to_geom(x.elems[i]).tag = "Ok" => mid.val[1][i] # None

(* C6 as stated: in sfc_to_geoms an element whose decoding fails           *)
(* (unsupported tag, fewer than two tags, malformed payload) gives None in *)
(* its own slot and every other element is decoded in its own slot.        *)
(* Stated for the lists without null elements.                             *)
C6_LenientDecode ==
    (pc = "sfc_to_geoms" /\ \A i \in DOMAIN x.elems : x.elems[i] # RNull) =>
        /\ mid.tag = "Ok"
        /\ Len(mid.val[1]) = Len(x.elems)
        /\ \A i \in DOMAIN x.elems :
              LET r == sfg_to_geom(x.elems[i])
              IN  mid.val[1][i] = IF r.tag = "Ok" THEN Some(r.val[1]) ELSE None

(* C7: geoms_to_sfc gives a list of as many elements as the sequence has,  *)
(* element i being the null marker when v[i] is None and to_sfg(v[i])      *)
(* when it is Some, in the order of v.                                     *)
C7_EncodePositional ==
    pc = "geoms_to_sfc" =>
        /\ mid.kind = "list"
        /\ Len(mid.elems) = Len(x)
        /\ \A i \in DOMAIN x :
              mid.elems[i] = IF x[i] = None THEN RNull ELSE to_sfg(x[i][1])

C7_Witness ==
    /\ pc = "geoms_to_sfc"
    /\ Len(x) = 3
    /\ x[1] = None
    /\ x[2] # None /\ x[2][1].geom.kind = "LineString"
    /\ x[3] # None /\ x[3][1].geom.kind = "Point"
    /\ mid.elems[1] = RNull
    /\ mid.elems[2].class = <<"XY", "LINESTRING", "sfg">>
    /\ mid.elems[3].class = <<"XY", "POINT", "sfg">>

\* The slot geoms_to_sfc gives an absent input.
SlotOfNone == geoms_to_sfc(<<None>>).elems[1]

Unencodable(o) == o # None /\ o[1].geom.kind \notin Supported

(* C8 as stated: the slot geoms_to_sfc gives Some(g), g of a variant       *)
(* outside the six, differs from the slot it gives None.                   *)
C8_UnencodableDistinct ==
    pc = "geoms_to_sfc" =>
        \A i \in DOMAIN x : Unencodable(x[i]) => mid.elems[i] # SlotOfNone

(* C8 amended: for a Geom of a variant outside the six the encoder does    *)
(* not fail and returns the null marker, and the slot geoms_to_sfc gives   *)
(* Some(such Geom) is that null marker, the same as the slot it gives      *)
(* None.                                                                   *)
C8_UnencodableIsNull ==
    pc = "geoms_to_sfc" =>
        \A i \in DOMAIN x :
            Unencodable(x[i]) =>
                /\ to_sfg(x[i][1]) = RNull
                /\ mid.elems[i] = RNull
                /\ mid.elems[i] = SlotOfNone

C8_Witness ==
    /\ pc = "geoms_to_sfc"
    /\ Len(x) = 2
    /\ Unencodable(x[1]) /\ x[1][1].geom.kind = "Line"
    /\ x[2] = None
    /\ mid.elems[1] = mid.elems[2]

---------------------------------------------------------------------------
(* Classifying a sequence of optional Geom: the loop of                    *)
(* determine_sfc_class one element per step, and determine_geoms_class on  *)
(* the list of pointers rsgeo keeps for the sequence (a NULL for None).    *)

pointer_list(v) ==
    RList([i \in DOMAIN v |-> IF v[i] = None THEN RNull ELSE to_pntr(v[i][1])])

InitClass ==
    /\ pc = "start"
    /\ x \in SeqsUpTo(OptGeoms, MaxLen)
    /\ mid = None
    /\ out = None

ScanBegin ==
    /\ pc = "start"
    /\ mid' = sfc_class_start
    /\ pc' = "scan"
    /\ UNCHANGED <<x, out>>

ScanStep ==
    /\ pc = "scan"
    /\ ~sfc_class_over(mid, x)
    /\ mid' = sfc_class_step(mid, x)
    /\ UNCHANGED <<pc, x, out>>

ScanEnd ==
    /\ pc = "scan"
    /\ sfc_class_over(mid, x)
    /\ out' = mid.result
    /\ pc' = "classified"
    /\ UNCHANGED <<x, mid>>

ToPntrs ==
    /\ pc = "start"
    /\ mid' = pointer_list(x)
    /\ pc' = "pointers"
    /\ UNCHANGED <<x, out>>

DetermineGeomsClass ==
    /\ pc = "pointers"
    /\ out' = determine_geoms_class(mid)
    /\ pc' = "vctrs_class"
    /\ UNCHANGED <<x, mid>>

NextClass ==
    ScanBegin \/ ScanStep \/ ScanEnd \/ ToPntrs \/ DetermineGeomsClass

SpecClass == InitClass /\ [][NextClass]_vars

---------------------------------------------------------------------------
\* The kinds of the non-null elements of a sequence of optional Geom.
Kinds(v) == {v[i][1].geom.kind : i \in {j \in DOMAIN v : v[j] # None}}

NonNull(v) == SelectSeq(v, LAMBDA e : e # None)

HasNull(v) == \E i \in DOMAIN v : v[i] = None

\* The sequence in every order.
Reorderings(v) ==
    {[i \in DOMAIN v |-> v[f[i]]] : f \in Permutations(DOMAIN v)}

(* C9: for a sequence with a non-null element the loop of                  *)
(* determine_sfc_class ends with the variant name of K when every non-null *)
(* element is of kind K and with the collection sentinel when two non-null *)
(* elements differ in kind; the sequence without its null elements, and    *)
(* the sequence in any other order, classify the same.                     *)
C9_ClassifierHomogeneity ==
    (pc = "classified" /\ Kinds(x) # {}) =>
        /\ \A K \in Kinds(x) : Kinds(x) = {K} => out = Str(K)
        /\ Cardinality(Kinds(x)) >= 2 => out = Str("GEOMETRYCOLLECTION")
        /\ determine_sfc_class(NonNull(x)) = out
        /\ \A v \in Reorderings(x) : determine_sfc_class(v) = out

C9_Witness ==
    /\ pc = "classified"
    /\ Len(x) = 3
    /\ x[1] # None /\ x[2] = None /\ x[3] # None
    /\ x[1] # x[3]
    /\ Kinds(x) = {"Point"}
    /\ out = Str("Point")

\* The lower-case and upper-case names of the six variants.
LowerName(k) ==
    CASE k = "Point" -> Str("point")
      [] k = "MultiPoint" -> Str("multipoint")
      [] k = "LineString" -> Str("linestring")
      [] k = "MultiLineString" -> Str("multilinestring")
      [] k = "Polygon" -> Str("polygon")
      [] k = "MultiPolygon" -> Str("multipolygon")

UpperName(k) ==
    CASE k = "Point" -> Str("POINT")
      [] k = "MultiPoint" -> Str("MULTIPOINT")
      [] k = "LineString" -> Str("LINESTRING")
      [] k = "MultiLineString" -> Str("MULTILINESTRING")
      [] k = "Polygon" -> Str("POLYGON")
      [] k = "MultiPolygon" -> Str("MULTIPOLYGON")

---------------------------------------------------------------------------
(* C11: a sequence with no geometry in it, of length 0 or with null        *)
(* elements only, is classified without a crash: determine_sfc_class       *)
(* returns a string and determine_geoms_class, on the list of pointers of  *)
(* the sequence, returns its four tags.                                    *)
C11_NoGeometryClassified ==
    /\ (pc = "classified" /\ Kinds(x) = {}) => out = Str("")
    /\ (pc = "vctrs_class" /\ Kinds(x) = {}) =>
            out.tag = "Ok" /\ Len(out.val[1]) = 4

---------------------------------------------------------------------------
(* fromsf.rs: matrix_to_coords and matrix_to_points on a matrix of any     *)
(* number of columns.                                                      *)

\* the numbers in the cells of a matrix
CellValues == {0, 1}
\* the column counts of the matrices: none, one, two and three columns
ColumnCounts == {0, 1, 2, 3}

AnyMatrices ==
    UNION {{MatrixOfRows(rows, n) :
                rows \in SeqsUpTo([1..n -> CellValues], MaxRows)} :
           n \in ColumnCounts}

InitMatrix ==
    /\ pc = "start"
    /\ x \in AnyMatrices
    /\ mid = None
    /\ out = None

MatrixToCoords ==
    /\ pc = "start"
    /\ mid' = matrix_to_coords(x)
    /\ pc' = "coords"
    /\ UNCHANGED <<x, out>>

MatrixToPoints ==
    /\ pc = "coords"
    /\ out' = matrix_to_points(x)
    /\ pc' = "points"
    /\ UNCHANGED <<x, mid>>

NextMatrix == MatrixToCoords \/ MatrixToPoints

SpecMatrix == InitMatrix /\ [][NextMatrix]_vars

\* What the column-count precondition allows a conversion of matrix m to
\* give: nothing but an abort unless m has two columns, and then one item
\* per row, row by row.
ColumnCountRespected(m, r) ==
    IF m.dim[2] # 2 THEN r = Panic
    ELSE /\ r.tag = "Ok"
         /\ Len(r.val[1]) = m.dim[1]
         /\ r.val[1] = Rows(m)

(* C12: matrix_to_coords and matrix_to_points return nothing (they abort)  *)
(* for a matrix whose column count is not 2, whatever its row count; for a *)
(* matrix of N rows and 2 columns they return N items, item r being        *)
(* (matrix[r,0], matrix[r,1]).                                             *)
C12_ColumnCount ==
    /\ pc \in {"coords", "points"} => ColumnCountRespected(x, mid)
    /\ pc = "points" => ColumnCountRespected(x, out)

C12_Witness ==
    /\ pc = "points"
    /\ x.dim = <<2, 3>>
    /\ x.dbl[1] # x.dbl[3]
    /\ mid = Panic
    /\ out = Panic

---------------------------------------------------------------------------
(* Decoding one host object with sfg_to_geom and with sfg_to_geometry.     *)

SfgToGeometry ==
    /\ pc = "decoded"
    /\ out' = sfg_to_geometry(x)
    /\ pc' = "infallible"
    /\ UNCHANGED <<x, mid>>

NextInfallible == SfgToGeom \/ SfgToGeometry

SpecInfallible == InitDecode /\ [][NextInfallible]_vars

\* A POINT object at the origin.
IsOriginPoint(r) ==
    /\ Len(r.class) >= 2 /\ r.class[2] = "POINT"
    /\ r.kind = "double" /\ Len(r.dbl) >= 2
    /\ r.dbl[1] = 0 /\ r.dbl[2] = 0

(* C13 as stated: for an object with at least two class tags               *)
(* sfg_to_geometry returns the Geom of sfg_to_geom when that is Ok, and    *)
(* returns the point (0, 0) exactly when sfg_to_geom is Err.               *)
C13_FallbackExactlyOnErr ==
    (pc = "infallible" /\ Len(x.class) >= 2) =>
        /\ mid.tag = "Ok" => out = mid.val[1]
        /\ out = ZeroPoint <=> mid = Err

(* C13 amended: sfg_to_geometry returns the Geom of sfg_to_geom when that  *)
(* is Ok, returns the point (0, 0) when sfg_to_geom is Err, and aborts     *)
(* exactly when sfg_to_geom aborts; the point (0, 0) is returned for an    *)
(* unrecognized tag and for a POINT object at the origin, and for nothing  *)
(* else.                                                                   *)
C13_InfallibleAgrees ==
    pc = "infallible" =>
        /\ mid.tag = "Ok" => out = mid.val[1]
        /\ mid = Err => out = ZeroPoint
        /\ mid = Panic <=> out = Panic
        /\ out = ZeroPoint <=> (mid = Err \/ IsOriginPoint(x))

C13_Witness ==
    /\ pc = "infallible"
    /\ x.class = <<"XY", "GEOMETRYCOLLECTION", "sfg">>
    /\ x.kind = "list"
    /\ mid = Err
    /\ out = ZeroPoint

---------------------------------------------------------------------------
RECURSIVE full_scan(_, _)
\* The reference classifier: every element of v is looked at, last to
\* first below, and nothing ends the scan early. The result is the name of
\* the kind all non-null elements share, empty when there is none, and the
\* sentinel when two of them differ.
full_scan(v, n) ==
    IF n = 0 THEN Str("")
    ELSE LET before == full_scan(v, n - 1)
         IN  IF v[n] = None THEN before
             ELSE IF Len(before) = 0 THEN Str(v[n][1].geom.kind)
             ELSE IF before = Str(v[n][1].geom.kind) THEN before
             ELSE Str("GEOMETRYCOLLECTION")

\* The elements the scan has gone past.
Seen(st, v) == SubSeq(v, 1, st.i)

(* C14: the loop of determine_sfc_class, which stops at the first non-null *)
(* element whose kind differs from the first non-null kind, ends with the  *)
(* result of the classifier that scans the whole sequence; and at every    *)
(* step of the loop the accumulated result is empty exactly when no        *)
(* non-null element has been gone past.                                    *)
C14_ShortCircuit ==
    /\ pc = "classified" =>
          /\ out = full_scan(x, Len(x))
          /\ determine_sfc_class(x) = out
    /\ pc \in {"scan", "classified"} =>
          (Len(mid.result) = 0 <=> Kinds(Seen(mid, x)) = {})

C14_Witness ==
    /\ pc = "classified"
    /\ Len(x) = 3
    /\ x[1] # None /\ x[2] # None /\ x[3] # None
    /\ x[1][1].geom.kind # x[2][1].geom.kind
    /\ mid.done /\ mid.i = 1
    /\ out = Str("GEOMETRYCOLLECTION")

(* C15: for a non-empty sequence of Geoms of the six supported variants    *)
(* without a null, determine_geoms_class on the pointers to_pntr makes of  *)
(* the elements returns the four tags geom_class makes of the result of    *)
(* determine_sfc_class, whether the kinds are the same or differ.          *)
C15_ClassifiersAgree ==
    (pc = "vctrs_class" /\ Len(x) > 0 /\ ~HasNull(x)
                        /\ Kinds(x) \subseteq Supported) =>
        /\ out.tag = "Ok"
        /\ Len(out.val[1]) = 4
        /\ out.val[1] = geom_class(determine_sfc_class(x))

C15_Witness ==
    /\ pc = "vctrs_class"
    /\ Len(x) = 3
    /\ ~HasNull(x)
    /\ Kinds(x) = {"MultiLineString"}
    /\ mid.elems[1].class = <<Str("multilinestring")>>
    /\ out = Ok(geom_class(Str("MultiLineString")))

---------------------------------------------------------------------------
(* vctrs.rs: a list made an rsgeo vector of a class name, and the checks   *)
(* and the type read off the vector.                                       *)

\* the characters of the class names: a letter in both cases, another
\* letter, and two characters that have no case
ClassChars == {"p", "P", "t", "_", "1"}

\* the names to_pntr and determine_geoms_class pass, and their spellings
NamedClasses ==
    {Str(n) : n \in {"", "point", "Point", "POINT", "multilinestring",
                     "MultiLineString", "geometrycollection",
                     "GEOMETRYCOLLECTION", "rs_", "rsgeo"}}

ClassNames == SeqsUpTo(ClassChars, MaxLen) \cup NamedClasses

\* lists of pointers, with and without a null, and a list that already
\* carries a class
ListSamples ==
    {RList(<<>>),
     pointer_list(<<Some(Geom(GPoint(coord(1, 2))))>>),
     pointer_list(<<None, Some(Geom(GLineString(<<coord(0, 0)>>)))>>),
     set_class(pointer_list(<<None>>), <<Str("list")>>)}

InitVctr ==
    /\ pc = "start"
    /\ x \in {[x |-> l, class |-> c] : l \in ListSamples, c \in ClassNames}
    /\ mid = None
    /\ out = None

AsRsgeoVctr ==
    /\ pc = "start"
    /\ mid' = as_rsgeo_vctr(x.x, x.class)
    /\ pc' = "vctr"
    /\ UNCHANGED <<x, out>>

VerifyRsgeo ==
    /\ pc = "vctr"
    /\ out' = verify_rsgeo(mid)
    /\ pc' = "verified"
    /\ UNCHANGED <<x, mid>>

IsRsgeo ==
    /\ pc = "vctr"
    /\ out' = is_rsgeo(mid)
    /\ pc' = "is_rsgeo"
    /\ UNCHANGED <<x, mid>>

RsgeoType ==
    /\ pc = "vctr"
    /\ out' = rsgeo_type(mid)
    /\ pc' = "rsgeo_type"
    /\ UNCHANGED <<x, mid>>

NextVctr == AsRsgeoVctr \/ VerifyRsgeo \/ IsRsgeo \/ RsgeoType

SpecVctr == InitVctr /\ [][NextVctr]_vars

\* The place of a character in an alphabet, 0 when it is not in it.
PlaceIn(alphabet, c) ==
    IF \E i \in DOMAIN alphabet : alphabet[i] = c
    THEN CHOOSE i \in DOMAIN alphabet : alphabet[i] = c
    ELSE 0

\* u spells s in upper case / in lower case: letter for letter, every
\* other character as it is.
IsUpperOf(u, s) ==
    /\ Len(u) = Len(s)
    /\ \A i \in DOMAIN s :
          IF PlaceIn(LowerCase, s[i]) # 0
          THEN u[i] = UpperCase[PlaceIn(LowerCase, s[i])]
          ELSE u[i] = s[i]

IsLowerOf(l, s) ==
    /\ Len(l) = Len(s)
    /\ \A i \in DOMAIN s :
          IF PlaceIn(UpperCase, s[i]) # 0
          THEN l[i] = LowerCase[PlaceIn(UpperCase, s[i])]
          ELSE l[i] = s[i]

(* C16: for every list and every ASCII class name, in any letter case and  *)
(* the empty name included, as_rsgeo_vctr gives the list the four tags     *)
(* "rs_" + the name in upper case, "rsgeo", "vctrs_vctr", "list" and       *)
(* leaves its elements alone; the vector passes verify_rsgeo and is_rsgeo, *)
(* and rsgeo_type returns the name in lower case; geom_class of the name   *)
(* is geom_class of the name in upper case.                                *)
C16_VctrClassRoundTrip ==
    /\ pc # "start" =>
          /\ Len(mid.class) = 4
          /\ SubSeq(mid.class[1], 1, 3) = <<"r", "s", "_">>
          /\ IsUpperOf(SubSeq(mid.class[1], 4, Len(mid.class[1])), x.class)
          /\ SubSeq(mid.class, 2, 4)
                = <<Str("rsgeo"), Str("vctrs_vctr"), Str("list")>>
          /\ mid.elems = x.x.elems /\ mid.kind = "list"
          /\ geom_class(x.class) = geom_class(to_uppercase(x.class))
    /\ pc = "verified" => out.tag = "Ok"
    /\ pc = "is_rsgeo" => out = Ok("TRUE")
    /\ pc = "rsgeo_type" => (out.tag = "Ok" /\ IsLowerOf(out.val[1], x.class))

C16_Witness ==
    /\ pc = "rsgeo_type"
    /\ x.class = <<"P", "o", "i", "n", "t">>
    /\ Len(x.x.elems) = 2
    /\ mid.class[1] = <<"r", "s", "_", "P", "O", "I", "N", "T">>
    /\ out = Ok(<<"p", "o", "i", "n", "t">>)

=============================================================================
